---- MODULE Spec2Model ----
(***************************************************************************)
(* Product search API (src/main.py): the hybrid search statement of        *)
(* search_products and the batched embedding backfill of                   *)
(* generate_embeddings_sync, both running against one "products" table.    *)
(*                                                                         *)
(* The table is modelled by its columns id (the row key, 1..MaxRows),      *)
(* external_id, name and abstract_embeddings.  Every SQL statement of the  *)
(* source is modelled by what PostgreSQL does with it under its default    *)
(* READ COMMITTED isolation: the statement reads a snapshot taken when it  *)
(* starts, and an UPDATE applies its changes when it commits.              *)
(***************************************************************************)
EXTENDS Integers, Sequences, FiniteSets

\* ---------------------------------------------------------------- bounds
\* Number of rows of the products table.
MaxRows == 3
\* Number of calls of the trigger endpoint (backfill runs) in one behaviour.
MaxRuns == 2
\* Largest BATCH_SIZE the endpoint hands to generate_embeddings_sync.  The
\* source sets 10 (src/main.py:198); the model takes every value up to
\* MaxBatch, and a batch size of MaxRows behaves as 10 does on a table of
\* at most 10 rows.
MaxBatch == 2
\* The LIMIT of the text_match branch (100 at src/main.py:158), scaled to
\* the table size so that the limit cuts the candidate list.
TextLimit == 2
\* The LIMIT of the embedding_match branch (100 at src/main.py:165), scaled.
VectorLimit == 2

Ids == 1..MaxRows
Runs == 1..MaxRuns

\* SQL NULL in the abstract_embeddings column.
NULL == -1

\* ------------------------------------------------------------------ texts
\* Product names and query texts are short strings over the characters
\* a, A, b, B (two letters in both cases).
NameOf(k) ==
    IF k % 3 = 1 THEN <<"a">> ELSE IF k % 3 = 2 THEN <<"A", "b">> ELSE <<"b">>

\* The contents of the name column the model starts from: mixed names in
\* two arrangements, and one table whose names are all the same.
Catalogues == {[i \in 1..MaxRows |-> NameOf(i * k)] : k \in 1..3}

\* The query_text values of the search requests.
Queries == {<< >>, <<"a">>, <<"B">>}

Lower(c) == IF c = "A" THEN "a" ELSE IF c = "B" THEN "b" ELSE c

\* name ILIKE '%' || q || '%': q occurs in name, ignoring case.
ILike(nm, q) ==
    \E off \in 0..Len(nm) :
        /\ off + Len(q) <= Len(nm)
        /\ \A k \in 1..Len(q) : Lower(nm[off + k]) = Lower(q[k])

Code(c) == IF c = "a" THEN 1 ELSE IF c = "A" THEN 2 ELSE IF c = "b" THEN 4 ELSE 5

RECURSIVE Embedding(_)
\* embedding('gemini-embedding-001', t)::vector, a deterministic function of
\* the text; the vector space is abstracted to the naturals.
Embedding(t) == IF t = << >> THEN 0 ELSE Code(Head(t)) + Embedding(Tail(t))

Abs(x) == IF x < 0 THEN -x ELSE x

\* The <=> distance of two vectors.
Distance(u, v) == Abs(u - v)

\* external_id of the row with key i: unique per row, and ordered the
\* other way round than id.
ExternalId(i) == 100 - i

VARIABLES
    name,          \* products.name, by id
    embedding,     \* products.abstract_embeddings, by id (NULL when absent)
    embedding0,    \* history: abstract_embeddings before any run
    pc,            \* position of each run of generate_embeddings_sync
    BATCH_SIZE,    \* the BATCH_SIZE the endpoint hands to every run
    total_products_embedded,   \* the counter of each run
    selected,      \* ids chosen by the sub-select of the statement in flight
    batches,       \* history: num_updated of every statement a run executed
    updated_ids,   \* history: all ids RETURNING handed to a run
    startNull,     \* history: ids with a NULL embedding when the run started
    failures,      \* history: exceptions caught by each run
    acks,          \* 202 responses sent by the trigger endpoint
    response       \* the response of search_products on its way to the caller

vars == <<name, embedding, embedding0, pc, BATCH_SIZE, total_products_embedded,
          selected, batches, updated_ids, startNull, failures, acks, response>>

storeVars == <<name, embedding, embedding0>>
runVars == <<pc, BATCH_SIZE, total_products_embedded, selected, batches,
             updated_ids, startNull, failures, acks>>

\* ------------------------------------------------------------ the store
\* WHERE abstract_embeddings IS NULL
Missing(emb) == {i \in Ids : emb[i] = NULL}

\* Mutant of FirstN: the LIMIT is one too large.
FirstNPlusOne(S, n) == {i \in S : Cardinality({j \in S : j < i}) < n + 1}

\* ORDER BY id ASC LIMIT n over the set S of ids.
FirstN(S, n) == {i \in S : Cardinality({j \in S : j < i}) < n}

\* Mutant of SelectMissing: the LIMIT is one too small.
SelectMissingShortLimit(emb, n) == FirstN(Missing(emb), n - 1)

\* Mutant of SelectMissing: the batch is not taken in ascending id.
SelectMissingDescending(emb, n) ==
    {i \in Missing(emb) : Cardinality({j \in Missing(emb) : j > i}) < n}

\* Mutant of SelectMissing: the IS NULL condition is lost.
SelectMissingAnyRow(emb, n) == FirstN(Ids, n)

\* The sub-select of the UPDATE: ids of up to n rows without an embedding,
\* smallest id first.
SelectMissing(emb, n) == FirstN(Missing(emb), n)

\* Mutant of WriteEmbeddings: the rows outside the batch lose their value.
WriteEmbeddingsResetsOthers(emb, S) ==
    [i \in Ids |-> IF i \in S THEN Embedding(name[i]) ELSE NULL]

\* Mutant of WriteEmbeddings: the statement is never committed.
WriteEmbeddingsRolledBack(emb, S) == emb

\* SET abstract_embeddings = embedding(..., name)::vector WHERE id IN S
WriteEmbeddings(emb, S) ==
    [i \in Ids |-> IF i \in S THEN Embedding(name[i]) ELSE emb[i]]

NoResponse ==
    [status |-> 0, query |-> << >>, lexical |-> << >>, vector |-> << >>,
     rows |-> << >>, nulls |-> {}, ids |-> << >>]

Init ==
    /\ name \in Catalogues
    /\ \E S \in SUBSET Ids :
          embedding = [i \in Ids |-> IF i \in S THEN Embedding(name[i]) ELSE NULL]
    /\ embedding0 = embedding
    /\ pc = [r \in Runs |-> "idle"]
    /\ BATCH_SIZE \in 1..MaxBatch
    /\ total_products_embedded = [r \in Runs |-> 0]
    /\ selected = [r \in Runs |-> {}]
    /\ batches = [r \in Runs |-> << >>]
    /\ updated_ids = [r \in Runs |-> {}]
    /\ startNull = [r \in Runs |-> {}]
    /\ failures = [r \in Runs |-> 0]
    /\ acks = 0
    /\ response = NoResponse

\* ------------------------------------------------------ backfill actions
\* Mutant of trigger_embedding_generation: a call is refused while an
\* earlier run is still active.
trigger_single_flight(r) ==
    /\ pc[r] = "idle"
    /\ \A s \in Runs : s < r => pc[s] # "idle"
    /\ \A s \in Runs : pc[s] \in {"idle", "Completed", "Aborted"}
    /\ pc' = [pc EXCEPT ![r] = "loop"]
    /\ total_products_embedded' = [total_products_embedded EXCEPT ![r] = 0]
    /\ startNull' = [startNull EXCEPT ![r] = Missing(embedding)]
    /\ acks' = acks + 1
    /\ UNCHANGED <<storeVars, BATCH_SIZE, selected, batches, updated_ids,
                   failures, response>>

\* POST /products/generate-embeddings: hands a new run to the background
\* tasks and answers 202 at once.  Runs are numbered in the order of the
\* calls.
trigger_embedding_generation(r) ==
    /\ pc[r] = "idle"
    /\ \A s \in Runs : s < r => pc[s] # "idle"
    /\ pc' = [pc EXCEPT ![r] = "loop"]
    /\ total_products_embedded' = [total_products_embedded EXCEPT ![r] = 0]
    /\ startNull' = [startNull EXCEPT ![r] = Missing(embedding)]
    /\ acks' = acks + 1
    /\ UNCHANGED <<storeVars, BATCH_SIZE, selected, batches, updated_ids,
                   failures, response>>

\* Mutant of BatchSelect: the sub-select reads the table as it was before
\* the earlier batches committed.
BatchSelectStale(r) ==
    /\ pc[r] = "loop"
    /\ selected' = [selected EXCEPT ![r] = SelectMissing(embedding0, BATCH_SIZE)]
    /\ pc' = [pc EXCEPT ![r] = "executing"]
    /\ UNCHANGED <<storeVars, BATCH_SIZE, total_products_embedded, batches,
                   updated_ids, startNull, failures, acks, response>>

\* connection.execute(sql_query) starts: the statement takes its snapshot
\* and the sub-select picks the rows to update.
BatchSelect(r) ==
    /\ pc[r] = "loop"
    /\ selected' = [selected EXCEPT ![r] = SelectMissing(embedding, BATCH_SIZE)]
    /\ pc' = [pc EXCEPT ![r] = "executing"]
    /\ UNCHANGED <<storeVars, BATCH_SIZE, total_products_embedded, batches,
                   updated_ids, startNull, failures, acks, response>>

\* The statement commits and RETURNING hands back the updated ids; an empty
\* list ends the run, any other is added to the counter and the loop goes on.
\* The commit is the one the source relies on (src/main.py:113-115: the
\* connection commits a single statement on success).  The statement writes
\* every row its sub-select picked: the outer UPDATE has no condition on
\* abstract_embeddings, so a row that another statement filled after the
\* snapshot is written and returned again.
BatchCommit(r) ==
    /\ pc[r] = "executing"
    /\ embedding' = WriteEmbeddings(embedding, selected[r])
    /\ LET num_updated == Cardinality(selected[r]) IN
        /\ batches' = [batches EXCEPT ![r] = Append(@, num_updated)]
        /\ IF selected[r] = {}
             THEN /\ pc' = [pc EXCEPT ![r] = "Completed"]
                  /\ UNCHANGED total_products_embedded
             ELSE /\ pc' = [pc EXCEPT ![r] = "loop"]
                  /\ total_products_embedded' =
                       [total_products_embedded EXCEPT ![r] = @ + num_updated]
    /\ updated_ids' = [updated_ids EXCEPT ![r] = @ \cup selected[r]]
    /\ selected' = [selected EXCEPT ![r] = {}]
    /\ UNCHANGED <<name, embedding0, BATCH_SIZE, startNull, failures, acks, response>>

\* Mutant of BatchFail: the failed batch is retried.
BatchFailRetries(r) ==
    /\ pc[r] \in {"loop", "executing"}
    /\ pc' = [pc EXCEPT ![r] = "loop"]
    /\ failures' = [failures EXCEPT ![r] = @ + 1]
    /\ selected' = [selected EXCEPT ![r] = {}]
    /\ UNCHANGED <<storeVars, BATCH_SIZE, total_products_embedded, batches,
                   updated_ids, startNull, acks, response>>

\* Mutant of BatchFail: the failing statement leaves its first row written.
BatchFailPartial(r) ==
    /\ pc[r] \in {"loop", "executing"}
    /\ pc' = [pc EXCEPT ![r] = "Aborted"]
    /\ failures' = [failures EXCEPT ![r] = @ + 1]
    /\ selected' = [selected EXCEPT ![r] = {}]
    /\ embedding' = WriteEmbeddings(embedding, FirstN(selected[r], 1))
    /\ UNCHANGED <<name, embedding0, BATCH_SIZE, total_products_embedded, batches,
                   updated_ids, startNull, acks, response>>

\* db_pool.connect() or connection.execute raises: the statement is rolled
\* back and the except branch leaves the loop.
BatchFail(r) ==
    /\ pc[r] \in {"loop", "executing"}
    /\ pc' = [pc EXCEPT ![r] = "Aborted"]
    /\ failures' = [failures EXCEPT ![r] = @ + 1]
    /\ selected' = [selected EXCEPT ![r] = {}]
    /\ UNCHANGED <<storeVars, BATCH_SIZE, total_products_embedded, batches,
                   updated_ids, startNull, acks, response>>

\* ------------------------------------------------------------ the search
Min(a, b) == IF a <= b THEN a ELSE b

Range(s) == {s[k] : k \in 1..Len(s)}

\* All orderings of n distinct elements of S.
Orderings(S, n) ==
    {s \in [1..n -> S] : \A a, b \in 1..n : a # b => s[a] # s[b]}

\* WHERE name ILIKE :query_text_pattern
TextMatches(q) == {i \in Ids : ILike(name[i], q)}

\* The text_match branch: up to TextLimit matching rows; without ORDER BY
\* the store may return any of them in any order.
LexicalLists(q) ==
    Orderings(TextMatches(q), Min(TextLimit, Cardinality(TextMatches(q))))

\* abstract_embeddings <=> embedding(..., q): NULL when the row has no
\* embedding, and ORDER BY ... ASC sorts NULL after every value.
NullsLast == 1000

SortKey(emb, i, q) ==
    IF emb[i] = NULL THEN NullsLast ELSE Distance(emb[i], Embedding(q))

\* The embedding_match branch: the first VectorLimit rows of the table in
\* ascending distance; rows of equal distance (and the NULL rows among
\* themselves) come in any order.  The branch has no WHERE clause.
VectorLists(emb, q) ==
    {s \in Orderings(Ids, Min(VectorLimit, MaxRows)) :
        /\ \A a, b \in 1..Len(s) : a < b => SortKey(emb, s[a], q) <= SortKey(emb, s[b], q)
        /\ \A i \in Ids \ Range(s) :
              \A a \in 1..Len(s) : SortKey(emb, s[a], q) <= SortKey(emb, i, q)}

Tag(src, s) == [k \in 1..Len(s) |-> [source |-> src, external_id |-> ExternalId(s[k])]]

\* Mutant of Combined: the embedding_match branch is lost.
CombinedTextOnly(lex, vec) == Tag("text_match", lex)

\* ( text_match branch ) UNION ALL ( embedding_match branch )
Combined(lex, vec) == Tag("text_match", lex) \o Tag("embedding_match", vec)

\* Position of a source tag in the collation of the ORDER BY clauses:
\* 'embedding_match' sorts before 'text_match'.
SourceKey(src) == IF src = "text_match" THEN 2 ELSE 1

\* Mutant of DistinctOn: ORDER BY external_id, source ASC.
DistinctOnAscending(combined) ==
    {row \in Range(combined) :
        \A other \in Range(combined) :
            other.external_id = row.external_id
                => SourceKey(other.source) >= SourceKey(row.source)}

\* SELECT DISTINCT ON (external_id) * ... ORDER BY external_id, source DESC:
\* of the rows of one external_id, the first in descending source order.
DistinctOn(combined) ==
    {row \in Range(combined) :
        \A other \in Range(combined) :
            other.external_id = row.external_id
                => SourceKey(other.source) <= SourceKey(row.source)}

\* Mutant of FinalOrders: ORDER BY source ASC.
FinalOrdersAscending(deduped) ==
    LET block(k) == {row \in deduped : SourceKey(row.source) = k}
        orders(k) == Orderings(block(k), Cardinality(block(k)))
    IN  {lo \o hi : lo \in orders(1), hi \in orders(2)}

\* ORDER BY source DESC: the rows of a source in one block, in an order the
\* statement does not determine.
FinalOrders(deduped) ==
    LET keys == {SourceKey(row.source) : row \in deduped}
        block(k) == {row \in deduped : SourceKey(row.source) = k}
        orders(k) == Orderings(block(k), Cardinality(block(k)))
    IN  IF keys = {} THEN {<< >>}
        ELSE IF keys = {1} THEN orders(1)
        ELSE IF keys = {2} THEN orders(2)
        ELSE {hi \o lo : hi \in orders(2), lo \in orders(1)}

ExternalIds(s) == [k \in 1..Len(s) |-> ExternalId(s[k])]

\* POST /search-products answering 200 with the ids of the statement.  One
\* search request is in flight at a time.
search_products(q) ==
    /\ response = NoResponse
    /\ \E lex \in LexicalLists(q), vec \in VectorLists(embedding, q) :
         \E rows \in FinalOrders(DistinctOn(Combined(lex, vec))) :
            response' = [status |-> 200, query |-> q,
                         lexical |-> ExternalIds(lex), vector |-> ExternalIds(vec),
                         rows |-> rows, nulls |-> Missing(embedding),
                         ids |-> [k \in 1..Len(rows) |-> rows[k].external_id]]
    /\ UNCHANGED <<storeVars, runVars>>

\* Mutant of search_products_fails: when the statement fails, the ids of a
\* text-only query are returned instead.
search_products_degrades(q) ==
    /\ response = NoResponse
    /\ \E lex \in LexicalLists(q) :
          response' = [status |-> 200, query |-> q,
                       lexical |-> ExternalIds(lex), vector |-> << >>,
                       rows |-> Tag("text_match", lex), nulls |-> Missing(embedding),
                       ids |-> ExternalIds(lex)]
    /\ UNCHANGED <<storeVars, runVars>>

\* POST /search-products when connect or execute raises: HTTP 500, no ids.
search_products_fails(q) ==
    /\ response = NoResponse
    /\ response' = [NoResponse EXCEPT !.status = 500, !.query = q]
    /\ UNCHANGED <<storeVars, runVars>>

\* The response has reached the caller; the next request can come.
return_response ==
    /\ response # NoResponse
    /\ response' = NoResponse
    /\ UNCHANGED <<storeVars, runVars>>

\* No run of the backfill is between trigger and its end.
NoRunActive == \A r \in Runs : pc[r] \in {"idle", "Completed", "Aborted"}

Next ==
    \/ \E r \in Runs : trigger_embedding_generation(r)
    \/ \E r \in Runs : BatchSelect(r)
    \/ \E r \in Runs : BatchCommit(r)
    \/ \E r \in Runs : BatchFail(r)
    \/ \E q \in Queries : search_products(q)
    \/ \E q \in Queries : search_products_fails(q)
    \/ return_response

\* The whole service: backfill runs and search requests in any interleaving.
Spec == Init /\ [][Next]_vars

\* The backfill alone, its runs in any interleaving.  The search actions
\* change neither the table nor a variable of the runs, so every property of
\* those variables is decided here.
NextBackfill ==
    \/ \E r \in Runs : trigger_embedding_generation(r)
    \/ \E r \in Runs : BatchSelect(r)
    \/ \E r \in Runs : BatchCommit(r)
    \/ \E r \in Runs : BatchFail(r)

SpecBackfill == Init /\ [][NextBackfill]_vars

\* The backfill with its runs one after the other: the endpoint is called
\* only while no earlier run is still active.
NextSeq ==
    \/ \E r \in Runs : NoRunActive /\ trigger_embedding_generation(r)
    \/ \E r \in Runs : BatchSelect(r)
    \/ \E r \in Runs : BatchCommit(r)
    \/ \E r \in Runs : BatchFail(r)

SpecSeq == Init /\ [][NextSeq]_vars

\* The search alone.  A response depends on the table only, and Init starts
\* from every table the backfill can produce (any set of rows may already
\* have its embedding).
NextSearch ==
    \/ \E q \in Queries : search_products(q)
    \/ \E q \in Queries : search_products_fails(q)
    \/ return_response

SpecSearch == Init /\ [][NextSearch]_vars

\* ------------------------------------------------------- search claims
TextSource(row) == row.source = "text_match"
EmbeddingSource(row) == row.source = "embedding_match"

\* The external ids of the rows of a response that satisfy Test, in order.
GroupIds(rows, Test(_)) ==
    LET grp == SelectSeq(rows, Test)
    IN  [k \in 1..Len(grp) |-> grp[k].external_id]

InLexical(e) == e \in Range(response.lexical)
NotInLexical(e) == e \notin Range(response.lexical)

\* C1: an external id returned by both candidate branches appears exactly
\* once in the result and as a text_match row; no id appears twice.
C1_DedupPriority ==
    response.status = 200 =>
        /\ \A a, b \in 1..Len(response.ids) :
              a # b => response.ids[a] # response.ids[b]
        /\ \A e \in Range(response.lexical) \cap Range(response.vector) :
              /\ Cardinality({k \in 1..Len(response.ids) : response.ids[k] = e}) = 1
              /\ [source |-> "text_match", external_id |-> e] \in Range(response.rows)
              /\ [source |-> "embedding_match", external_id |-> e] \notin Range(response.rows)

C1_Witness ==
    /\ response.status = 200
    /\ Range(response.lexical) \cap Range(response.vector) # {}
    /\ Range(response.vector) \ Range(response.lexical) # {}

\* C2: the text_match ids come in the order of the lexical candidate list
\* and the embedding_match ids in the order of the vector candidate list
\* (ascending distance) without the ids that are also lexical candidates.
\* Stated for the requests with a query text.
C2_OrderPreserved ==
    (response.status = 200 /\ response.query # << >>) =>
        /\ GroupIds(response.rows, TextSource) = response.lexical
        /\ GroupIds(response.rows, EmbeddingSource)
             = SelectSeq(response.vector, NotInLexical)

\* C3: every text_match row of a result comes before every
\* embedding_match row.
C3_Grouping ==
    response.status = 200 =>
        \A a, b \in 1..Len(response.rows) :
            (TextSource(response.rows[a]) /\ EmbeddingSource(response.rows[b])) => a < b

C3_Witness ==
    /\ response.status = 200
    /\ \E a, b \in 1..Len(response.rows) :
          TextSource(response.rows[a]) /\ EmbeddingSource(response.rows[b])

\* C4: the ids of a result are exactly the external ids of the lexical
\* candidates together with those of the vector candidates.
C4_NoLossNoInvention ==
    response.status = 200 =>
        Range(response.ids) = Range(response.lexical) \cup Range(response.vector)

C4_Witness ==
    /\ response.status = 200
    /\ Range(response.lexical) \ Range(response.vector) # {}
    /\ Range(response.vector) \ Range(response.lexical) # {}
    /\ Len(response.ids) = MaxRows

\* ----------------------------------------------------- backfill claims
\* ceil(m / b)
Ceil(m, b) == (m + b - 1) \div b

\* Rows without an embedding when run r started.
StartMissing(r) == Cardinality(startNull[r])

RECURSIVE ExpectedBatches(_, _)
\* The batch sizes of an undisturbed run over m rows: min(b, remaining)
\* for each batch, then one batch of size 0.
ExpectedBatches(m, b) ==
    IF m = 0 THEN <<0>>
    ELSE <<Min(b, m)>> \o ExpectedBatches(m - Min(b, m), b)

IsPrefix(s, t) == Len(s) <= Len(t) /\ \A k \in 1..Len(s) : s[k] = t[k]

RECURSIVE SumTotals(_)
\* total_products_embedded of the runs 1..r together.
SumTotals(r) == IF r = 0 THEN 0 ELSE total_products_embedded[r] + SumTotals(r - 1)

\* C5 as stated: a run that reaches Completed has executed at most
\* ceil(missingRows / batchSize) batches.
C5_StepsWithinCeil ==
    \A r \in Runs :
        pc[r] = "Completed" => Len(batches[r]) <= Ceil(StartMissing(r), BATCH_SIZE)

\* C5 amended: a run executes at most ceil(missingRows / batchSize) + 1
\* batches (the last one being the empty batch), a run that has executed
\* that many is Completed, and a run that has not ended can always execute
\* its next batch.
C5_StepsWithinCeilPlusOne ==
    \A r \in Runs :
        /\ Len(batches[r]) <= Ceil(StartMissing(r), BATCH_SIZE) + 1
        /\ Len(batches[r]) = Ceil(StartMissing(r), BATCH_SIZE) + 1 => pc[r] = "Completed"
        /\ pc[r] \in {"loop", "executing"} => ENABLED (BatchSelect(r) \/ BatchCommit(r))
        /\ pc[r] = "Completed" => batches[r][Len(batches[r])] = 0

C5_Witness ==
    \E r \in Runs :
        /\ pc[r] = "Completed"
        /\ StartMissing(r) = MaxRows
        /\ Len(batches[r]) = Ceil(MaxRows, BATCH_SIZE) + 1
        /\ BATCH_SIZE > 1

\* C6: no row is updated by (returned to) two different runs.
C6_NoRowUpdatedByTwoRuns ==
    \A r1, r2 \in Runs : r1 # r2 => updated_ids[r1] \cap updated_ids[r2] = {}

\* C7: when a run is Completed, no row of the table lacks an embedding.
C7_CompletedMeansNoneMissing ==
    \A r \in Runs : pc[r] = "Completed" => Missing(embedding) = {}

C7_Witness ==
    \E r \in Runs : pc[r] = "Completed" /\ startNull[r] # {} /\ updated_ids[r] # {}

\* C8: a run without failure and without a concurrent writer executes the
\* batches min(B, remaining), ..., 0, and ends with
\* total_products_embedded = M.
C8_BatchSizes ==
    \A r \in Runs :
        /\ IsPrefix(batches[r], ExpectedBatches(StartMissing(r), BATCH_SIZE))
        /\ pc[r] = "Completed" =>
              /\ batches[r] = ExpectedBatches(StartMissing(r), BATCH_SIZE)
              /\ total_products_embedded[r] = StartMissing(r)

C8_Witness ==
    \E r \in Runs :
        /\ pc[r] = "Completed"
        /\ BATCH_SIZE = 2
        /\ StartMissing(r) = 3
        /\ batches[r] = <<2, 1, 0>>
        /\ total_products_embedded[r] = 3

\* C9: a failing batch takes the run to Aborted with its counter unchanged,
\* and an Aborted run executes no further batch and keeps its counter.
C9_AbortIsTerminal ==
    [][\A r \in Runs :
          /\ failures'[r] # failures[r] =>
                /\ pc'[r] = "Aborted"
                /\ total_products_embedded'[r] = total_products_embedded[r]
          /\ pc[r] = "Aborted" =>
                /\ pc'[r] = "Aborted"
                /\ selected'[r] = {}
                /\ batches'[r] = batches[r]
                /\ failures'[r] = failures[r]
                /\ total_products_embedded'[r] = total_products_embedded[r]]_vars

C9_Witness ==
    \E r \in Runs :
        /\ pc[r] = "Aborted"
        /\ total_products_embedded[r] > 0
        /\ \E s \in Runs : s # r /\ pc[s] = "loop" /\ batches[s] # << >>

\* C10: with the runs one after the other, a run updates only rows that
\* had no embedding when it started (none that an earlier run updated),
\* and the table is what one run that updated as many rows as all the runs
\* together makes of the initial table.
C10_RerunIdempotent ==
    /\ \A r \in Runs : updated_ids[r] \subseteq startNull[r]
    /\ \A r1, r2 \in Runs : r1 # r2 => updated_ids[r1] \cap updated_ids[r2] = {}
    /\ embedding = WriteEmbeddings(embedding0,
                                   FirstN(Missing(embedding0), SumTotals(MaxRuns)))

C10_Witness ==
    \E r1, r2 \in Runs :
        /\ r1 < r2
        /\ pc[r1] = "Aborted" /\ updated_ids[r1] # {}
        /\ pc[r2] = "Completed" /\ updated_ids[r2] # {}

\* ------------------------------------------- frame and error claims
\* C11: a step of the service never adds or removes a row and never changes
\* a name; it changes an embedding only from NULL to the embedding of the
\* row's name, and an embedding that is present keeps its value.
C11_BackfillFrame ==
    [][/\ DOMAIN embedding' = DOMAIN embedding
       /\ DOMAIN name' = DOMAIN name
       /\ name' = name
       /\ \A i \in Ids :
             /\ embedding[i] # NULL => embedding'[i] = embedding[i]
             /\ embedding'[i] # embedding[i] => embedding'[i] = Embedding(name[i])]_vars

C11_Witness ==
    /\ response.status = 200
    /\ \E r \in Runs : pc[r] = "loop" /\ updated_ids[r] # {}
    /\ \E i \in Ids : embedding0[i] # NULL
    /\ Missing(embedding) # {}

\* C12: a request with an empty query text gets no identifier list and
\* causes no candidate request.
C12_EmptyQueryRejected ==
    (response.status # 0 /\ response.query = << >>) =>
        /\ response.status # 200
        /\ response.lexical = << >>
        /\ response.vector = << >>
        /\ response.ids = << >>

\* C13: a response is either a failure without any id, or a result that
\* holds the whole text_match branch and the whole embedding_match branch
\* of the statement; there is no result from one branch only.
C13_NoPartialResult ==
    /\ response.status \in {0, 200, 500}
    /\ response.status = 500 =>
          /\ response.ids = << >>
          /\ response.rows = << >>
          /\ response.lexical = << >> /\ response.vector = << >>
    /\ response.status = 200 =>
          /\ Len(response.lexical)
               = Min(TextLimit, Cardinality(TextMatches(response.query)))
          /\ Len(response.vector) = Min(VectorLimit, MaxRows)
          /\ Range(response.lexical) \cup Range(response.vector)
               \subseteq Range(response.ids)

C13_Witness ==
    /\ response.status = 500
    /\ response.query # << >>
    /\ TextMatches(response.query) # {}

\* C18: every id returned as an embedding_match belongs to a row that has
\* an embedding when the search runs.  Stated for the requests with a query
\* text.
C18_EmbeddingMatchHasEmbedding ==
    (response.status = 200 /\ response.query # << >>) =>
        \A k \in 1..Len(response.rows) :
            EmbeddingSource(response.rows[k]) =>
                response.rows[k].external_id \notin {ExternalId(i) : i \in response.nulls}

\* ------------------------------------------------- batch step claims
RECURSIVE SumSeq(_)
SumSeq(s) == IF s = << >> THEN 0 ELSE Head(s) + SumSeq(Tail(s))

\* C14: a run has one statement in flight at most, and the selection of
\* that statement sees every row the run's earlier batches updated as
\* having an embedding: it picks none of them.
C14_NextBatchAfterCommit ==
    \A r \in Runs :
        /\ selected[r] # {} => pc[r] = "executing"
        /\ \A i \in updated_ids[r] : embedding[i] # NULL
        /\ selected[r] \cap updated_ids[r] = {}
        /\ pc[r] = "executing" => selected[r] \subseteq startNull[r]

C14_Witness ==
    \E r \in Runs :
        /\ pc[r] = "executing"
        /\ selected[r] # {}
        /\ updated_ids[r] # {}

FilledByStep == {i \in Ids : embedding[i] = NULL /\ embedding'[i] # NULL}

\* C16: the counter of a run starts at 0, never decreases, is the sum of
\* the counts of its batches, and is the number of rows whose embedding the
\* run has filled: every batch of the run adds to the counter the number
\* of rows that batch fills.
C16_CounterIsRowsFilled ==
    /\ [](\A r \in Runs :
            /\ pc[r] = "idle" => total_products_embedded[r] = 0
            /\ total_products_embedded[r] = SumSeq(batches[r]))
    /\ [][\A r \in Runs :
            /\ total_products_embedded'[r] >= total_products_embedded[r]
            /\ batches'[r] # batches[r] =>
                  total_products_embedded'[r]
                      = total_products_embedded[r] + Cardinality(FilledByStep)]_vars

\* C17: a failing batch changes no embedding.
C17_FailedBatchWritesNothing ==
    [][\A r \in Runs :
          failures'[r] # failures[r] =>
              /\ embedding' = embedding
              /\ Missing(embedding') = Missing(embedding)
              /\ updated_ids' = updated_ids]_vars

C17_Witness ==
    \E r \in Runs :
        /\ pc[r] = "Aborted"
        /\ updated_ids[r] # {}
        /\ Missing(embedding) # {}

\* C19: every call of the endpoint is acknowledged at once and starts a run
\* of its own with a counter of 0; a call is possible whatever the other
\* runs are doing, and no step of a run sends or takes back an
\* acknowledgement.
C19_TriggerAcknowledges ==
    /\ [](/\ acks = Cardinality({r \in Runs : pc[r] # "idle"})
          /\ (\E r \in Runs : pc[r] = "idle")
                => ENABLED (\E r \in Runs : trigger_embedding_generation(r)))
    /\ [][acks' # acks =>
            /\ acks' = acks + 1
            /\ \E r \in Runs :
                  /\ pc[r] = "idle" /\ pc'[r] = "loop"
                  /\ total_products_embedded'[r] = 0
                  /\ \A s \in Runs \ {r} :
                        /\ pc'[s] = pc[s]
                        /\ total_products_embedded'[s] = total_products_embedded[s]]_vars

C19_Witness ==
    /\ acks = 2
    /\ pc[1] = "executing" /\ batches[1] # << >>
    /\ pc[2] = "loop" /\ batches[2] = << >>

====
